---- MODULE Spec2Model ----
(***************************************************************************)
(* Model of the '@' inclusion compatibility harness                        *)
(* (integration-tests/claude-compatibility.test.js).                       *)
(*                                                                         *)
(* Text is a sequence of tokens.  A token is one of the characters the     *)
(* code looks at ("@", "/", the backtick, a whitespace character), or a    *)
(* run of other characters ("header.md", "# Main Document") that the code  *)
(* never looks into.  A run that follows "@" holds no whitespace; no run   *)
(* holds "@" or a line break, and no run starts or ends with whitespace.   *)
(* Two texts are the same string iff they are the same sequence.           *)
(***************************************************************************)
EXTENDS Integers, Sequences, FiniteSets, TLC

\* Longest processedFiles list drawn besides the lists of TEST_CASES.
MaxProcessed == 2

\* ------------------------------------------------------------------ text

\* The backtick character (a string of the model cannot hold one).
backtick == "[backtick]"

\* What \s matches and what String.prototype.trim strips.
WS == {" ", "\t", "\n", "\r"}

SetMin(S) == CHOOSE x \in S : \A y \in S : x <= y
SetMax(S) == CHOOSE x \in S : \A y \in S : y <= x

\* String.prototype.split(sep) for a one-character separator.
RECURSIVE split(_, _)
split(s, sep) ==
  LET at == {k \in 1..Len(s) : s[k] = sep}
  IN  IF at = {} THEN <<s>>
      ELSE <<SubSeq(s, 1, SetMin(at) - 1)>>
             \o split(SubSeq(s, SetMin(at) + 1, Len(s)), sep)

\* Array.prototype.join(sep).
RECURSIVE join(_, _)
join(parts, sep) ==
  IF parts = <<>> THEN <<>>
  ELSE IF Len(parts) = 1 THEN parts[1]
  ELSE parts[1] \o sep \o join(Tail(parts), sep)

\* String.prototype.trim().
trim(s) ==
  LET keep == {k \in 1..Len(s) : s[k] \notin WS}
  IN  IF keep = {} THEN <<>> ELSE SubSeq(s, SetMin(keep), SetMax(keep))

\* line.match(/@([^\s]+)/): the places where the pattern can start.
matchStarts(line) ==
  {k \in 1..(Len(line) - 1) : line[k] = "@" /\ line[k + 1] \notin WS}

\* line.match(/@([^\s]+)/) is not null.
atMatch(line) == matchStarts(line) # {}

\* atMatch[1]: the leftmost match's capture, the longest run without
\* whitespace after its "@".
capture(line) ==
  LET k    == SetMin(matchStarts(line))
      stop == {j \in (k + 1)..Len(line) : line[j] \in WS}
      last == IF stop = {} THEN Len(line) ELSE SetMin(stop) - 1
  IN  SubSeq(line, k + 1, last)

\* ------------------------------------------------------------------ paths

\* process.cwd(), as path segments: the directory the harness runs in.
CWD == <<"work">>

isAbsolute(p) == Len(p) > 0 /\ p[1] = "/"

\* path.dirname(p), for a path that does not end in "/".
dirname(p) ==
  LET at == {k \in 1..Len(p) : p[k] = "/"}
  IN  IF at = {} THEN <<".">>
      ELSE IF SetMax(at) = 1 THEN <<"/">>
      ELSE SubSeq(p, 1, SetMax(at) - 1)

\* The segments of a path string: the runs between "/"; an empty run and a
\* run of several tokens are segments too.
segments(p) == split(p, "/")

\* normalizeString of node's path module on an absolute path: "" and "."
\* segments go, ".." drops the segment before it and does nothing at the root.
RECURSIVE normalize(_, _)
normalize(segs, acc) ==
  IF segs = <<>> THEN acc
  ELSE LET s == Head(segs)
       IN  IF s = <<>> \/ s = <<".">> THEN normalize(Tail(segs), acc)
           ELSE IF s = <<"..">>
             THEN normalize(Tail(segs),
                            IF acc = <<>> THEN acc
                            ELSE SubSeq(acc, 1, Len(acc) - 1))
           ELSE normalize(Tail(segs), Append(acc, s))

\* The absolute path string of normalized segments.
RECURSIVE absolute(_)
absolute(segs) ==
  IF segs = <<>> THEN <<"/">>
  ELSE IF Len(segs) = 1 THEN <<"/">> \o segs[1]
  ELSE <<"/">> \o segs[1] \o absolute(Tail(segs))

\* path.resolve(dir, p): right to left until an absolute argument, then the
\* working directory; the result is normalized and absolute.
resolve(dir, p) ==
  LET cwd == [k \in 1..Len(CWD) |-> <<CWD[k]>>]
      all == IF isAbsolute(p) THEN segments(p)
             ELSE IF isAbsolute(dir) THEN segments(dir) \o segments(p)
             ELSE cwd \o segments(dir) \o segments(p)
  IN  absolute(normalize(all, <<>>))

\* ------------------------------------------------------------------ markers

FileMarker(filePath)    == <<"--- File: ">> \o filePath \o <<" ---">>
EndFileMarker(filePath) == <<"--- End of File: ">> \o filePath \o <<" ---">>
ImportedFrom(importPath)   == <<"<!-- Imported from: ">> \o importPath \o <<" -->">>
EndOfImport(importPath)    == <<"<!-- End of import from: ">> \o importPath \o <<" -->">>
ImportFailed(importPath)   == <<"<!-- Import failed: ">> \o importPath \o <<" -->">>

\* ------------------------------------------------------------------ inputs

\* A text from its lines (the template literals of TEST_FILES, line by line).
text(ls) == join(ls, <<"\n">>)

\* A line that is one directive, '@' followed by a path.
at(path) == <<"@">> \o path

main_md     == <<"main.md">>
header_md   == <<"components", "/", "header.md">>
footer_md   == <<"components", "/", "footer.md">>
title_md    == <<"shared", "/", "title.md">>
config_md   == <<"shared", "/", "config.md">>
links_md    == <<"shared", "/", "links.md">>
circular_a  == <<"circular-a.md">>
circular_b  == <<"circular-b.md">>
duplicate_test == <<"duplicate-test.md">>
nested_test == <<"nested-test.md">>
deep_file   == <<"deep", "/", "nested", "/", "file.md">>

\* The mock file structure of the harness.
TEST_FILES ==
  (main_md :> text(<< <<"# Main Document">>, <<>>,
                      <<"This is the main content.">>, <<>>,
                      at(<<".", "/">> \o header_md), <<>>,
                      <<"More content here.">>, <<>>,
                      at(<<".", "/">> \o footer_md), <<>>,
                      at(<<".", "/">> \o config_md), <<>> >>))
  @@ (header_md :> text(<< <<"# Header Component">>, <<>>,
                           at(<<".", "/">> \o title_md), <<>>,
                           <<"This is the header content.">>, <<>> >>))
  @@ (footer_md :> text(<< <<"# Footer Component">>, <<>>,
                           <<"This is the footer content.">>, <<>>,
                           at(<<".", "/">> \o links_md), <<>> >>))
  @@ (title_md :> text(<< <<"# Project Title">>, <<>>,
                          <<"This is the shared title content.">>, <<>> >>))
  @@ (config_md :> text(<< <<"# Configuration">>, <<>>,
                           <<"This is the configuration content.">>, <<>> >>))
  @@ (links_md :> text(<< <<"# Links">>, <<>>,
                          <<"- [Home](./main.md)">>,
                          <<"- [Header](./components/header.md)">>, <<>> >>))
  @@ (circular_a :> text(<< <<"# Circular A">>, <<>>,
                            at(<<".", "/">> \o circular_b), <<>>,
                            <<"Content A">>, <<>> >>))
  @@ (circular_b :> text(<< <<"# Circular B">>, <<>>,
                            at(<<".", "/">> \o circular_a), <<>>,
                            <<"Content B">>, <<>> >>))
  @@ (duplicate_test :> text(<< <<"# Duplicate Test">>, <<>>,
                                at(<<".", "/">> \o config_md), <<>>,
                                <<"Content here.">>, <<>>,
                                at(<<".", "/">> \o config_md), <<>>,
                                <<"More content.">>, <<>> >>))
  @@ (nested_test :> text(<< <<"# Nested Test">>, <<>>,
                             at(<<".", "/">> \o deep_file), <<>> >>))
  @@ (deep_file :> text(<< <<"# Deep Nested File">>, <<>>,
                           at(<<"..", "/", "..", "/">> \o config_md), <<>>,
                           <<"Deep content.">>, <<>> >>))

\* The files lists of TEST_CASES.
TEST_CASES ==
  { <<main_md, header_md, footer_md, config_md>>,
    <<main_md, header_md, title_md, config_md>>,
    <<duplicate_test, config_md>>,
    <<circular_a, circular_b>> }

\* The documents of the specification's nested example (Example 2), under
\* the names it gives them.
NESTED_FILES ==
  (<<"main.md">> :> text(<< at(<<".", "/", "header.md">>),
                            at(<<".", "/", "content.md">>),
                            at(<<".", "/", "footer.md">>) >>))
  @@ (<<"header.md">> :> text(<< at(<<".", "/">> \o title_md),
                                 <<"[header content]">> >>))
  @@ (title_md :> <<"[title content]">>)
  @@ (<<"content.md">> :> <<"[content]">>)
  @@ (<<"footer.md">> :> <<"[footer content]">>)

\* The document of the specification's section on code regions, and the
\* files it names.
REGION_FILES ==
  (<<"GEMINI.md">> :>
      text(<< <<"# This will be processed:", " ", "@", ".", "/", "file.md">>,
              <<>>,
              <<backtick, backtick, backtick, "javascript">>,
              <<"// This will NOT be processed:", " ", "@", ".", "/", "file.js">>,
              <<backtick, backtick, backtick>>,
              <<>>,
              <<backtick, "This will NOT be processed:", " ",
                "@", ".", "/", "file.md", backtick>> >>))
  @@ (<<"file.md">> :> <<"[file.md content]">>)
  @@ (<<"file.js">> :> <<"[file.js content]">>)

\* A document whose directives climb out of the working directory with
\* '../', name a missing file, name an empty file and use an absolute path,
\* and the files they reach.
PATH_FILES ==
  (<<"docs", "/", "guide.md">> :>
      text(<< <<"# Guide">>,
              at(<<"..", "/", "..", "/", "secret.md">>),
              at(<<".", "/", "missing.md">>),
              at(<<".", "/", "empty.md">>),
              at(<<"/", "etc", "/", "notes.md">>), <<>> >>))
  @@ (<<"docs", "/", "empty.md">> :> <<>>)
  @@ (<<"/", "secret.md">> :> <<"[secret]">>)
  @@ (<<"/", "etc", "/", "notes.md">> :> text(<< <<" ">>, <<"[notes]">>, <<"\t">> >>))

\* A document with an '@' in the middle of a word (a mail address) and a
\* line of two directives, and the files those '@' name.
LINE_FILES ==
  (<<"notes.md">> :>
      text(<< <<"# Notes">>,
              <<"Contact", " ", "user", "@", "example.com">>,
              <<"@", ".", "/", "a.md", " ", "@", ".", "/", "b.md">>,
              <<"Mail", " ", "@", " ", "noon">> >>))
  @@ (<<"a.md">> :> <<"[a]">>)
  @@ (<<"b.md">> :> <<"[b]">>)
  @@ (<<"example.com">> :> <<"[example]">>)

\* Documents whose root has sibling directives to documents that refer to
\* each other and back to the root.
SIBLING_FILES ==
  (<<"main.md">> :> text(<< at(<<".", "/", "x.md">>),
                            at(<<".", "/", "y.md">>),
                            at(<<".", "/", "x.md">>) >>))
  @@ (<<"x.md">> :> text(<< at(<<".", "/", "y.md">>), <<"[x]">> >>))
  @@ (<<"y.md">> :> text(<< at(<<".", "/", "x.md">>),
                            at(<<".", "/", "main.md">>),
                            at(<<".", "/", "missing.md">>) >>))

FILE_SYSTEMS == {TEST_FILES, NESTED_FILES, REGION_FILES, PATH_FILES, LINE_FILES}

\* The same contents under path.resolve(key): the import map a caller gives
\* so that the resolved paths of the directives are keys of it.
byResolvedPath(fs) ==
  [full \in {resolve(<<".">>, k) : k \in DOMAIN fs} |->
     fs[CHOOSE k \in DOMAIN fs : resolve(<<".">>, k) = full]]

\* The lists of at most n paths of a file system.
RECURSIVE listsUpTo(_, _)
listsUpTo(keys, n) ==
  IF n = 0 THEN {<<>>}
  ELSE LET shorter == listsUpTo(keys, n - 1)
       IN  shorter \cup {Append(l, k) : l \in shorter, k \in keys}

\* ------------------------------------------------------- analyzeClaudeFile

\* The atImports array after the loop has run over the first n lines.
RECURSIVE atImports(_, _)
atImports(ls, n) ==
  IF n = 0 THEN <<>>
  ELSE atImports(ls, n - 1)
         \o (IF atMatch(ls[n])
               THEN <<[line |-> n, import |-> capture(ls[n]),
                       context |-> trim(ls[n])]>>
               ELSE <<>>)

analyzeClaudeFile(content, repo, filePath) ==
  LET ls == split(content, "\n")
  IN  [repo        |-> repo,
       filePath    |-> filePath,
       totalLines  |-> Len(ls),
       atImports   |-> atImports(ls, Len(ls)),
       hasImports  |-> Len(atImports(ls, Len(ls))) > 0,
       importCount |-> Len(atImports(ls, Len(ls)))]

\* ------------------------------------------------ find-claude-md-examples.cjs

\* Most items of one search result drawn.
MaxItems == 2

SEARCH_QUERIES ==
  << "filename:CLAUDE.md \"@\"", "filename:claude.md \"@\"",
     "filename:CLAUDE.md \"@./\"", "filename:claude.md \"@./\"",
     "filename:CLAUDE.md \"@/\"", "filename:claude.md \"@/\"" >>

\* An item of a search result.
item(full_name, path) == [repository |-> [full_name |-> full_name], path |-> path]

\* The items the code search can return: two files of one repository and a
\* file of another.
ITEMS ==
  { item("octo/app", "CLAUDE.md"), item("octo/app", "docs/claude.md"),
    item("hub/lib", "CLAUDE.md") }

\* `${item.repository.full_name}:${item.path}`
fileKey(it) == <<it.repository.full_name, ":", it.path>>

\* What the contents API holds for each of them: a file with directives, a
\* file without any, and an empty file (no content in the response).
REMOTE ==
  (fileKey(item("octo/app", "CLAUDE.md")) :> TEST_FILES[main_md])
  @@ (fileKey(item("octo/app", "docs/claude.md")) :> TEST_FILES[config_md])
  @@ (fileKey(item("hub/lib", "CLAUDE.md")) :> <<>>)

\* What searchGitHub can resolve to: a response without items (an API error
\* message) or with a list of items.
SEARCH_RESULTS ==
  {[message |-> "API rate limit exceeded"]}
    \cup {[items |-> l] : l \in listsUpTo(ITEMS, MaxItems)}

\* A number of JavaScript as a fraction; with den = 0 it is NaN when num = 0
\* and Infinity otherwise.
number(n) == [num |-> n, den |-> 1]

\* a / b for two integers that are not negative.
divide(a, b) == [num |-> a, den |-> b]

\* results.reduce((sum, r) => sum + r.importCount, 0)
RECURSIVE totalImports(_)
totalImports(results) ==
  IF results = <<>> THEN 0
  ELSE totalImports(SubSeq(results, 1, Len(results) - 1))
         + results[Len(results)].importCount

\* results.filter(r => r.hasImports).length
filesWithImports(results) ==
  Cardinality({k \in 1..Len(results) : results[k].hasImports})

generateReport(results) ==
  [summary |->
     [totalFiles |-> Len(results),
      filesWithImports |-> filesWithImports(results),
      totalImports |-> totalImports(results),
      averageImportsPerFile |->
        IF Len(results) > 0
          THEN divide(totalImports(results), filesWithImports(results))
          ELSE number(0)],
   files |-> results,
   recommendations |->
     IF filesWithImports(results) > 0
       THEN <<"N real-world CLAUDE.md files use '@' inclusion syntax",
              "These files would be affected",
              "Consider testing these files with both implementations">>
       ELSE <<>>]

\* ------------------------------------------------------------ rewrite_msg.sh
\* A line of a commit message is a sequence of characters, each a string
\* of length one; a message is the sequence of its lines.

Upper == <<"A", "B", "C", "D", "E", "F", "G", "H", "I", "J", "K", "L", "M", "N", "O", "P", "Q", "R", "S", "T", "U", "V", "W", "X", "Y", "Z">>
Lower == <<"a", "b", "c", "d", "e", "f", "g", "h", "i", "j", "k", "l", "m", "n", "o", "p", "q", "r", "s", "t", "u", "v", "w", "x", "y", "z">>

\* tr '[:upper:]' '[:lower:]' on one character and on a line.
lower(c) ==
  IF \E i \in 1..Len(Upper) : Upper[i] = c
    THEN Lower[CHOOSE i \in 1..Len(Upper) : Upper[i] = c]
    ELSE c
toLower(s) == [k \in 1..Len(s) |-> lower(s[k])]

startsWith(s, p) == Len(s) >= Len(p) /\ SubSeq(s, 1, Len(p)) = p

contains(s, p) ==
  \E k \in 1..(Len(s) - Len(p) + 1) : SubSeq(s, k, k + Len(p) - 1) = p

\* grep -qi "w1\|w2\|...": some word occurs in the line, letter case aside.
grepi(s, words) == \E w \in words : contains(toLower(s), w)

\* The types of the pattern of line 27.
TYPES ==
  { <<"f", "e", "a", "t">>,
    <<"f", "i", "x">>,
    <<"d", "o", "c", "s">>,
    <<"s", "t", "y", "l", "e">>,
    <<"r", "e", "f", "a", "c", "t", "o", "r">>,
    <<"t", "e", "s", "t">>,
    <<"c", "h", "o", "r", "e">>,
    <<"p", "e", "r", "f">>,
    <<"c", "i">>,
    <<"b", "u", "i", "l", "d">>,
    <<"r", "e", "v", "e", "r", "t">> }

\* grep -qE '^(feat|...|revert)(\(.+\))?: ': a type, then an optional
\* parenthesis around one character or more, then ": ".
conventional(line) ==
  \E t \in TYPES :
    /\ startsWith(line, t)
    /\ LET r == SubSeq(line, Len(t) + 1, Len(line))
       IN  \/ startsWith(r, <<":", " ">>)
           \/ /\ startsWith(r, <<"(">>)
              /\ \E q \in 3..(Len(r) - 2) :
                   r[q] = ")" /\ r[q + 1] = ":" /\ r[q + 2] = " "

\* The places of the colons of a line, and of those a blank follows.
colons(line) == {c \in 1..Len(line) : line[c] = ":"}
colonBlanks(line) == {c \in colons(line) : c < Len(line) /\ line[c + 1] = " "}

\* sed 's/\([a-z]*\([^:]*\): \)\(.*\)/\1/': the leftmost match starts after
\* the last colon before the first ": " and runs to the end of the line;
\* what stays is the line up to the first ": ", that one included.
type_part(line) ==
  IF colonBlanks(line) = {} THEN line
  ELSE SubSeq(line, 1, SetMin(colonBlanks(line)) + 1)

\* sed 's/^[a-z]*\([^:]*\): //' | tr: the pattern is anchored and crosses no
\* colon, so it matches only when a blank follows the first colon of the
\* line; otherwise the line stays whole.
body_part(line) ==
  IF colons(line) # {} /\ SetMin(colons(line)) \in colonBlanks(line)
    THEN toLower(SubSeq(line, SetMin(colons(line)) + 2, Len(line)))
    ELSE toLower(line)

\* if [ ${#new_first_line} -gt 60 ]: the first 57 characters and "...".
truncate(s) ==
  IF Len(s) > 60 THEN SubSeq(s, 1, 57) \o <<".", ".", ".">> ELSE s

\* The type inferred from the content of a line that is not conventional.
inferType(line) ==
  IF grepi(line, {<<"f", "i", "x">>, <<"b", "u", "g">>, <<"e", "r", "r", "o", "r">>, <<"i", "s", "s", "u", "e">>})
    THEN <<"f", "i", "x">>
  ELSE IF grepi(line, {<<"a", "d", "d">>, <<"n", "e", "w">>, <<"f", "e", "a", "t", "u", "r", "e">>, <<"i", "m", "p", "l", "e", "m", "e", "n", "t">>})
    THEN <<"f", "e", "a", "t">>
  ELSE IF grepi(line, {<<"d", "o", "c">>, <<"r", "e", "a", "d", "m", "e">>, <<"c", "o", "m", "m", "e", "n", "t">>})
    THEN <<"d", "o", "c", "s">>
  ELSE IF grepi(line, {<<"t", "e", "s", "t">>, <<"s", "p", "e", "c">>})
    THEN <<"t", "e", "s", "t">>
  ELSE IF grepi(line, {<<"r", "e", "f", "a", "c", "t", "o", "r">>, <<"c", "l", "e", "a", "n">>, <<"i", "m", "p", "r", "o", "v", "e">>})
    THEN <<"r", "e", "f", "a", "c", "t", "o", "r">>
  ELSE IF grepi(line, {<<"s", "t", "y", "l", "e">>, <<"f", "o", "r", "m", "a", "t">>, <<"l", "i", "n", "t">>})
    THEN <<"s", "t", "y", "l", "e">>
  ELSE IF grepi(line, {<<"c", "i">>, <<"b", "u", "i", "l", "d">>, <<"d", "e", "p", "l", "o", "y">>, <<"w", "o", "r", "k", "f", "l", "o", "w">>})
    THEN <<"c", "i">>
  ELSE IF grepi(line, {<<"p", "e", "r", "f">>, <<"p", "e", "r", "f", "o", "r", "m", "a", "n", "c", "e">>, <<"o", "p", "t", "i", "m", "i", "z", "e">>})
    THEN <<"p", "e", "r", "f">>
  ELSE IF grepi(line, {<<"c", "h", "o", "r", "e">>, <<"u", "p", "d", "a", "t", "e">>, <<"b", "u", "m", "p">>, <<"v", "e", "r", "s", "i", "o", "n">>})
    THEN <<"c", "h", "o", "r", "e">>
  ELSE <<"c", "h", "o", "r", "e">>


new_first_line(first_line) ==
  IF conventional(first_line)
    THEN truncate(type_part(first_line) \o body_part(first_line))
    ELSE truncate(inferType(first_line) \o <<":", " ">> \o toLower(first_line))

\* n copies of the character c.
rep(c, n) == [k \in 1..n |-> c]

\* Commit messages: first lines that follow the convention and first lines
\* that do not, with and without a body, a scope that holds a colon, and
\* first lines longer than 60 characters in the text and in the scope.
MESSAGES ==
  { <<<<"f", "e", "a", "t", ":", " ", "a", "d", "d", " ", "x">>>>,
    <<<<"f", "e", "a", "t", ":", " ", "A", "d", "d", " ", "X">>>>,
    <<<<"U", "p", "d", "a", "t", "e", " ", "R", "E", "A", "D", "M", "E">>,
      <<>>,
      <<"E", "x", "p", "l", "a", "i", "n", " ", "t", "h", "e", " ", "s", "e", "t", "u", "p", ".">>>>,
    <<<<"f", "i", "x", " ", "b", "u", "g", " ", "i", "n", " ", "P", "a", "r", "s", "e", "r">>>>,
    <<<<"F", "I", "X", ":", " ", "y">>>>,
    <<<<"d", "o", "c", "s", ":", " ", "a", ":", " ", "B">>>>,
    <<<<"f", "i", "x", "(", "a", ":", "b", ")", ":", " ", "m", "s", "g">>>>,
    <<<<"f", "e", "a", "t", "(", "a", ":", " ", "b", ")", ":", " ", "c">>>>,
    <<<<"m", "i", "s", "c">>>>,
    <<<<"f", "e", "a", "t", ":", " ">> \o rep("a", 60)>>,
    <<<<"f", "e", "a", "t", "(">> \o rep("a", 56) \o <<")", ":", " ", "x">>>> }

\* The merge message of the history with a merge.
MERGE_MESSAGE == <<<<"M", "e", "r", "g", "e", " ", "b", "r", "a", "n", "c", "h", " ", "t", "o", "p", "i", "c">>>>

\* git's cleanup of a message given with -m: no blank line first or last,
\* no two blank lines in a row.
RECURSIVE cleanup(_)
cleanup(msg) ==
  IF msg = <<>> THEN <<>>
  ELSE IF Head(msg) = <<>> /\ (Len(msg) = 1 \/ msg[2] = <<>>)
    THEN cleanup(Tail(msg))
  ELSE <<Head(msg)>> \o cleanup(Tail(msg))

\* new_msg: the new first line, and after a blank line the message from
\* its second line on when it has more than one line.
new_msg(msg) ==
  IF Len(msg) > 1
    THEN <<new_first_line(Head(msg)), <<>>>> \o Tail(msg)
    ELSE <<new_first_line(Head(msg))>>

\* A commit object: its parents and its message.
commit(parents, msg) == [parents |-> parents, msg |-> msg]

\* A linear history of the messages ms, oldest first: commit k on commit k - 1.
linear(ms) ==
  [k \in 1..Len(ms) |-> commit(IF k = 1 THEN <<>> ELSE <<k - 1>>, ms[k])]

\* A history with a merge: two commits on the root and their merge.
merged(m1, m2, m3) ==
  <<commit(<<>>, m1), commit(<<1>>, m2), commit(<<1>>, m3),
    commit(<<2, 3>>, MERGE_MESSAGE)>>

\* git show --no-patch --format="%p" | grep -q " ": two parents or more.
isMerge(c) == Len(c.parents) > 1

\* The commits reachable from commit id in the object store objs.
RECURSIVE ancestors(_, _)
ancestors(objs, id) ==
  {id} \cup UNION {ancestors(objs, objs[id].parents[k]) :
                     k \in 1..Len(objs[id].parents)}

\* The elements of a set of commit ids, oldest (least) first.
RECURSIVE ascending(_)
ascending(S) ==
  IF S = {} THEN <<>> ELSE <<SetMin(S)>> \o ascending(S \ {SetMin(S)})

\* git log --reverse --format=%H from commit id.
logReverse(objs, id) == ascending(ancestors(objs, id))

\* ------------------------------------------------------------------ state

VARIABLES
  files,           \* path -> content
  importMap,       \* path -> content, the third argument
  processedFiles,  \* the list of paths to render
  pc,              \* "claude", "gemini", "lines", "done"; "idle": not run
  fi,              \* position of the for-of loop over processedFiles
  output,          \* the output array of the running function
  lines,           \* the lines of the file being processed
  li,              \* position of the loop over lines
  processedLines,  \* the processedLines array
  claudeOutput,    \* what generateClaudeStyleOutput returned
  geminiOutput,    \* what generateGeminiTreeOutput returned
  scanned,         \* the paths whose content was split and matched, in order
  lookedUp,        \* the resolved paths looked up in importMap, in order
  \* main of find-claude-md-examples.cjs
  spc,             \* "search", "items", "report", "done"; "idle": not run
  qi,              \* position of the loop over SEARCH_QUERIES
  items,           \* results.items of the query at hand
  ii,              \* position of the loop over items
  seenFiles,       \* the Set seenFiles
  allResults,      \* the array allResults
  report,          \* what generateReport returned
  fetched,         \* the keys getFileContent was called for, in order
  events,          \* what has happened so far: "search failed",
                   \* "read failed", "seen again"
  \* rewrite_msg.sh
  rpc,             \* "log", "checkout", "rewrite", "done"; "idle": not run
  objects,         \* the commits of the repository, by id (age)
  branch,          \* the commit the branch points to
  HEAD,            \* the commit checked out
  detached,        \* HEAD is detached from the branch
  commits,         \* $commits, the list the loop goes over
  ci,              \* position of the loop over $commits
  rewritten,       \* the lines echoed: "Rewriting <hash>: '<old>' -> '<new>'"
  \* the inclusion graph builder
  nodeState,       \* canonical path -> "UNVISITED", "IN_PROGRESS", "DONE"
  stacks,          \* branch -> its traversal stack, a sequence of frames
  cacheWrites,     \* canonical path -> how often its document was cached
  cycles           \* the edges with a cycle diagnostic, <<document, k>>

harnessVars == <<files, importMap, processedFiles, pc, fi, output, lines, li,
                 processedLines, claudeOutput, geminiOutput, scanned, lookedUp>>

searchVars == <<spc, qi, items, ii, seenFiles, allResults, report, fetched,
                events>>

rewriteVars == <<rpc, objects, branch, HEAD, detached, commits, ci, rewritten>>

builderVars == <<nodeState, stacks, cacheWrites, cycles>>

vars == <<harnessVars, searchVars, rewriteVars, builderVars>>

inputs == <<files, importMap, processedFiles>>

\* The harness before it is run.
harnessIdle ==
  /\ files = <<>>
  /\ importMap = <<>>
  /\ processedFiles = <<>>
  /\ pc = "idle"
  /\ fi = 1
  /\ output = <<>>
  /\ lines = <<>>
  /\ li = 1
  /\ processedLines = <<>>
  /\ claudeOutput = <<>>
  /\ geminiOutput = <<>>
  /\ scanned = <<>>
  /\ lookedUp = <<>>

\* The search script before it is run.
searchIdle ==
  /\ spc = "idle"
  /\ qi = 1
  /\ items = <<>>
  /\ ii = 1
  /\ seenFiles = {}
  /\ allResults = <<>>
  /\ report = "undefined"
  /\ fetched = <<>>
  /\ events = {}

\* The rewrite script before it is run.
rewriteIdle ==
  /\ rpc = "idle"
  /\ objects = <<>>
  /\ branch = 0
  /\ HEAD = 0
  /\ detached = FALSE
  /\ commits = <<>>
  /\ ci = 1
  /\ rewritten = <<>>

\* The graph builder before it is run.
builderIdle ==
  /\ nodeState = <<>>
  /\ stacks = <<>>
  /\ cacheWrites = <<>>
  /\ cycles = {}

Init ==
  /\ files \in FILE_SYSTEMS
  /\ importMap \in {files, byResolvedPath(files)}
  /\ processedFiles \in
       (listsUpTo(DOMAIN files, MaxProcessed) \ {<<>>})
         \cup {l \in TEST_CASES : \A k \in 1..Len(l) : l[k] \in DOMAIN files}
  /\ pc = "claude"
  /\ fi = 1
  /\ output = <<>>
  /\ lines = <<>>
  /\ li = 1
  /\ processedLines = <<>>
  /\ claudeOutput = <<>>
  /\ geminiOutput = <<>>
  /\ scanned = <<>>
  /\ lookedUp = <<>>
  /\ searchIdle
  /\ rewriteIdle
  /\ builderIdle

\* ------------------------------------------------- generateClaudeStyleOutput

\* claudeBlock without the trim: the content pushed as it is.
claudeBlockUntrimmed(filePath, content) ==
  <<FileMarker(filePath), content, EndFileMarker(filePath)>>

\* What one pass of the loop pushes for a file.
claudeBlock(filePath, content) ==
  <<FileMarker(filePath), trim(content), EndFileMarker(filePath)>>

ClaudePush ==
  /\ pc = "claude"
  /\ fi <= Len(processedFiles)
  /\ output' = output \o claudeBlock(processedFiles[fi], files[processedFiles[fi]])
  /\ fi' = fi + 1
  /\ UNCHANGED <<inputs, pc, lines, li, processedLines, claudeOutput,
                 geminiOutput, scanned, lookedUp>>
  /\ UNCHANGED <<searchVars, rewriteVars, builderVars>>

ClaudeReturn ==
  /\ pc = "claude"
  /\ fi > Len(processedFiles)
  /\ claudeOutput' = join(output, <<"\n", "\n">>)
  /\ pc' = "gemini"
  /\ fi' = 1
  /\ output' = <<>>
  /\ UNCHANGED <<inputs, lines, li, processedLines, geminiOutput, scanned,
                 lookedUp>>
  /\ UNCHANGED <<searchVars, rewriteVars, builderVars>>

\* -------------------------------------------------- generateGeminiTreeOutput

\* fullImportPath of a line that matches.
fullImportPath(filePath, line) == resolve(dirname(filePath), capture(line))

\* if (importMap[fullImportPath]): the key is there and its content is not
\* the empty string.
found(map, full) == full \in DOMAIN map /\ map[full] # <<>>

\* What the loop body pushes for one line.
processLine(map, filePath, line) ==
  IF atMatch(line)
    THEN IF found(map, fullImportPath(filePath, line))
           THEN <<ImportedFrom(capture(line)),
                  trim(map[fullImportPath(filePath, line)]),
                  EndOfImport(capture(line))>>
           ELSE <<ImportFailed(capture(line))>>
    ELSE <<line>>

\* The paths one pass of the outer loop scans: the file taken from
\* processedFiles, split into lines that are then matched one by one.
scans(filePath) == <<filePath>>

\* lookups behind a cache: a path looked up before is not looked up again.
lookupsCached(filePath, line) ==
  IF atMatch(line)
       /\ \A k \in 1..Len(lookedUp) : lookedUp[k] # fullImportPath(filePath, line)
    THEN <<fullImportPath(filePath, line)>>
    ELSE <<>>

\* The paths the loop body looks up in importMap for one line.
lookups(filePath, line) ==
  IF atMatch(line) THEN <<fullImportPath(filePath, line)>> ELSE <<>>

GeminiFile ==
  /\ pc = "gemini"
  /\ fi <= Len(processedFiles)
  /\ lines' = split(files[processedFiles[fi]], "\n")
  /\ processedLines' = <<>>
  /\ li' = 1
  /\ pc' = "lines"
  /\ scanned' = scanned \o scans(processedFiles[fi])
  /\ UNCHANGED <<inputs, fi, output, claudeOutput, geminiOutput, lookedUp>>
  /\ UNCHANGED <<searchVars, rewriteVars, builderVars>>

GeminiLine ==
  /\ pc = "lines"
  /\ li <= Len(lines)
  /\ processedLines' =
       processedLines \o processLine(importMap, processedFiles[fi], lines[li])
  /\ lookedUp' = lookedUp \o lookups(processedFiles[fi], lines[li])
  /\ li' = li + 1
  /\ UNCHANGED <<inputs, pc, fi, output, lines, claudeOutput, geminiOutput,
                 scanned>>
  /\ UNCHANGED <<searchVars, rewriteVars, builderVars>>

GeminiPush ==
  /\ pc = "lines"
  /\ li > Len(lines)
  /\ output' = Append(output, join(processedLines, <<"\n">>))
  /\ fi' = fi + 1
  /\ pc' = "gemini"
  /\ UNCHANGED <<inputs, lines, li, processedLines, claudeOutput,
                 geminiOutput, scanned, lookedUp>>
  /\ UNCHANGED <<searchVars, rewriteVars, builderVars>>

GeminiReturn ==
  /\ pc = "gemini"
  /\ fi > Len(processedFiles)
  /\ geminiOutput' = join(output, <<"\n", "\n">>)
  /\ pc' = "done"
  /\ UNCHANGED <<inputs, fi, output, lines, li, processedLines, claudeOutput,
                 scanned, lookedUp>>
  /\ UNCHANGED <<searchVars, rewriteVars, builderVars>>

Next ==
  \/ ClaudePush
  \/ ClaudeReturn
  \/ GeminiFile
  \/ GeminiLine
  \/ GeminiPush
  \/ GeminiReturn

Spec == Init /\ [][Next]_vars

TypeOK ==
  /\ pc \in {"idle", "claude", "gemini", "lines", "done"}
  /\ fi \in 1..(Len(processedFiles) + 1)

\* ------------------------------------------------------------------ main
\* (find-claude-md-examples.cjs)

InitSearch ==
  /\ harnessIdle
  /\ rewriteIdle
  /\ builderIdle
  /\ spc = "search"
  /\ qi = 1
  /\ items = <<>>
  /\ ii = 1
  /\ seenFiles = {}
  /\ allResults = <<>>
  /\ report = "undefined"
  /\ fetched = <<>>
  /\ events = {}

\* unseen without the set: every item counts as new.
unseenAlways(key) == TRUE

\* !seenFiles.has(fileKey)
unseen(key) == key \notin seenFiles

\* await searchGitHub(query) rejects: the catch of the query's try logs the
\* error and the loop goes on with the next query.
SearchFails ==
  /\ spc = "search"
  /\ qi <= Len(SEARCH_QUERIES)
  /\ events' = events \cup {"search failed"}
  /\ qi' = qi + 1
  /\ UNCHANGED <<spc, items, ii, seenFiles, allResults, report, fetched>>
  /\ UNCHANGED <<harnessVars, rewriteVars, builderVars>>

\* await searchGitHub(query) resolves: with items, the loop over them
\* starts; without, the query is over.
SearchReturns ==
  /\ spc = "search"
  /\ qi <= Len(SEARCH_QUERIES)
  /\ \E results \in SEARCH_RESULTS :
       IF "items" \in DOMAIN results
         THEN /\ items' = results.items
              /\ ii' = 1
              /\ spc' = "items"
              /\ qi' = qi
         ELSE /\ qi' = qi + 1
              /\ UNCHANGED <<spc, items, ii>>
  /\ UNCHANGED <<seenFiles, allResults, report, fetched, events>>
  /\ UNCHANGED <<harnessVars, rewriteVars, builderVars>>

\* An item whose key is in seenFiles: nothing is done for it.
ItemSeen ==
  /\ spc = "items"
  /\ ii <= Len(items)
  /\ ~unseen(fileKey(items[ii]))
  /\ events' = events \cup {"seen again"}
  /\ ii' = ii + 1
  /\ UNCHANGED <<spc, qi, items, seenFiles, allResults, report, fetched>>
  /\ UNCHANGED <<harnessVars, rewriteVars, builderVars>>

\* A new item whose getFileContent rejects: the inner catch logs it.
ReadFails ==
  /\ spc = "items"
  /\ ii <= Len(items)
  /\ unseen(fileKey(items[ii]))
  /\ seenFiles' = seenFiles \cup {fileKey(items[ii])}
  /\ fetched' = Append(fetched, fileKey(items[ii]))
  /\ events' = events \cup {"read failed"}
  /\ ii' = ii + 1
  /\ UNCHANGED <<spc, qi, items, allResults, report>>
  /\ UNCHANGED <<harnessVars, rewriteVars, builderVars>>

\* A new item whose getFileContent resolves to null (a response without
\* content) or to the empty string: if (content) is not taken.
ReadEmpty ==
  /\ spc = "items"
  /\ ii <= Len(items)
  /\ unseen(fileKey(items[ii]))
  /\ seenFiles' = seenFiles \cup {fileKey(items[ii])}
  /\ fetched' = Append(fetched, fileKey(items[ii]))
  /\ ii' = ii + 1
  /\ UNCHANGED <<spc, qi, items, allResults, report, events>>
  /\ UNCHANGED <<harnessVars, rewriteVars, builderVars>>

\* A new item whose content arrives: its analysis joins allResults.
Analyse ==
  /\ spc = "items"
  /\ ii <= Len(items)
  /\ unseen(fileKey(items[ii]))
  /\ REMOTE[fileKey(items[ii])] # <<>>
  /\ seenFiles' = seenFiles \cup {fileKey(items[ii])}
  /\ fetched' = Append(fetched, fileKey(items[ii]))
  /\ allResults' =
       Append(allResults,
              analyzeClaudeFile(REMOTE[fileKey(items[ii])],
                                items[ii].repository.full_name, items[ii].path))
  /\ ii' = ii + 1
  /\ UNCHANGED <<spc, qi, items, report, events>>
  /\ UNCHANGED <<harnessVars, rewriteVars, builderVars>>

\* The items are through: after the delay, the next query.
NextQuery ==
  /\ spc = "items"
  /\ ii > Len(items)
  /\ qi' = qi + 1
  /\ spc' = "search"
  /\ UNCHANGED <<items, ii, seenFiles, allResults, report, fetched, events>>
  /\ UNCHANGED <<harnessVars, rewriteVars, builderVars>>

\* The queries are through: the report is generated, saved and printed.
Report ==
  /\ spc = "search"
  /\ qi > Len(SEARCH_QUERIES)
  /\ report' = generateReport(allResults)
  /\ spc' = "done"
  /\ UNCHANGED <<qi, items, ii, seenFiles, allResults, fetched, events>>
  /\ UNCHANGED <<harnessVars, rewriteVars, builderVars>>

NextSearch ==
  \/ SearchFails
  \/ SearchReturns
  \/ ItemSeen
  \/ ReadFails
  \/ ReadEmpty
  \/ Analyse
  \/ NextQuery
  \/ Report

SpecSearch == InitSearch /\ [][NextSearch]_vars

\* ------------------------------------------------------------ rewrite_msg.sh
\* (the main loop and rewrite_commit)

\* Longest linear history drawn.
MaxCommits == 2

\* The repository the script is run in: a branch checked out at the tip of
\* a linear history, or of a history with one merge.
InitRewrite ==
  /\ harnessIdle
  /\ searchIdle
  /\ builderIdle
  /\ objects \in
       {linear(ms) : ms \in listsUpTo(MESSAGES, MaxCommits) \ {<<>>}}
         \cup {merged(m1, m2, <<<<"t", "o", "p", "i", "c">>>>) :
                 m1 \in MESSAGES, m2 \in MESSAGES}
  /\ branch = Len(objects)
  /\ HEAD = Len(objects)
  /\ detached = FALSE
  /\ rpc = "log"
  /\ commits = <<>>
  /\ ci = 1
  /\ rewritten = <<>>

\* commits=$(git log --reverse --format=%H)
ListCommits ==
  /\ rpc = "log"
  /\ commits' = logReverse(objects, HEAD)
  /\ rpc' = "checkout"
  /\ UNCHANGED <<objects, branch, HEAD, detached, ci, rewritten>>
  /\ UNCHANGED <<harnessVars, searchVars, builderVars>>

\* git checkout "$commit" --detach
Checkout ==
  /\ rpc = "checkout"
  /\ ci <= Len(commits)
  /\ HEAD' = commits[ci]
  /\ detached' = TRUE
  /\ rpc' = "rewrite"
  /\ UNCHANGED <<objects, branch, commits, ci, rewritten>>
  /\ UNCHANGED <<harnessVars, searchVars, builderVars>>

\* rewrite_commit of a merge commit: it returns at once.
SkipMerge ==
  /\ rpc = "rewrite"
  /\ isMerge(objects[commits[ci]])
  /\ ci' = ci + 1
  /\ rpc' = "checkout"
  /\ UNCHANGED <<objects, branch, HEAD, detached, commits, rewritten>>
  /\ UNCHANGED <<harnessVars, searchVars, builderVars>>

\* rewrite_commit of any other commit: git commit --amend makes a commit
\* with the parents of HEAD and the new message and moves HEAD to it, and
\* the branch with it only when HEAD is not detached.  The new commit is
\* the old one when nothing in it differs (same message, same second).
Amend ==
  /\ rpc = "rewrite"
  /\ ~isMerge(objects[commits[ci]])
  /\ LET msg == objects[commits[ci]].msg
         new == commit(objects[HEAD].parents, cleanup(new_msg(msg)))
     IN  /\ \E id \in (IF new = objects[HEAD] THEN {HEAD} ELSE {})
                        \cup {Len(objects) + 1} :
               /\ objects' = IF id = HEAD THEN objects ELSE Append(objects, new)
               /\ HEAD' = id
               /\ branch' = IF detached THEN branch ELSE id
         /\ rewritten' =
              Append(rewritten,
                     [commit_hash    |-> commits[ci],
                      first_line     |-> Head(msg),
                      new_first_line |-> new_first_line(Head(msg))])
  /\ ci' = ci + 1
  /\ rpc' = "checkout"
  /\ UNCHANGED <<detached, commits>>
  /\ UNCHANGED <<harnessVars, searchVars, builderVars>>

\* The loop is through: "Commit message rewriting complete!"
Complete ==
  /\ rpc = "checkout"
  /\ ci > Len(commits)
  /\ rpc' = "done"
  /\ UNCHANGED <<objects, branch, HEAD, detached, commits, ci, rewritten>>
  /\ UNCHANGED <<harnessVars, searchVars, builderVars>>

NextRewrite ==
  \/ ListCommits
  \/ Checkout
  \/ SkipMerge
  \/ Amend
  \/ Complete

SpecRewrite == InitRewrite /\ [][NextRewrite]_vars

\* ------------------------------------------------------------------ the
\* inclusion graph the documents describe, as the claims speak of it

\* The first document of the list is the root of a render.
root == processedFiles[1]

\* The raw paths of a document's directives, in document order.
RECURSIVE rawPaths(_)
rawPaths(ls) ==
  IF ls = <<>> THEN <<>>
  ELSE (IF atMatch(Head(ls)) THEN <<capture(Head(ls))>> ELSE <<>>)
         \o rawPaths(Tail(ls))

directives(d) == rawPaths(split(files[d], "\n"))

\* Every directive of every document stands alone on its line, outside any
\* code region: every reading of the directive syntax finds the same ones.
plain(fs) ==
  \A d \in DOMAIN fs :
    \A l \in {split(fs[d], "\n")[k] : k \in 1..Len(split(fs[d], "\n"))} :
      /\ \A k \in 1..Len(l) : l[k] # backtick
      /\ (\E k \in 1..Len(l) : l[k] = "@") =>
            /\ l[1] = "@"
            /\ \A k \in 2..Len(l) : l[k] \notin WS \cup {"@"}
            /\ Len(l) > 1

\* The document a directive of d with raw path r leads to: the document
\* whose own location is the directive's path taken from d's directory.
\* <<>> when there is none.
target(d, r) ==
  LET full == resolve(dirname(d), r)
      hits == {t \in DOMAIN files : resolve(<<".">>, t) = full}
  IN  IF hits = {} THEN <<>> ELSE CHOOSE t \in hits : TRUE

\* One step of the graph: the documents d's directives lead to, in order.
RECURSIVE targetsOf(_, _)
targetsOf(d, rs) ==
  IF rs = <<>> THEN <<>>
  ELSE (IF target(d, Head(rs)) = <<>> THEN <<>> ELSE <<target(d, Head(rs))>>)
         \o targetsOf(d, Tail(rs))

successors(d) == targetsOf(d, directives(d))

\* Depth-first preorder from d: seen is the order of first encounter so far.
RECURSIVE visit(_, _)
RECURSIVE visitAll(_, _)
visit(d, seen) ==
  IF \E k \in 1..Len(seen) : seen[k] = d THEN seen
  ELSE visitAll(successors(d), Append(seen, d))
visitAll(ds, seen) ==
  IF ds = <<>> THEN seen ELSE visitAll(Tail(ds), visit(Head(ds), seen))

preorder(d) == visit(d, <<>>)

reachable(d) == {preorder(d)[k] : k \in 1..Len(preorder(d))}

\* The directive occurrences, in the documents the root reaches, that lead
\* to document t.
occurrences(t) ==
  UNION {{<<d, k>> : k \in {i \in 1..Len(directives(d)) :
                               target(d, directives(d)[i]) = t}} :
          d \in reachable(root)}

\* The paths of the '--- File: ... ---' markers of a flat output, in order.
RECURSIVE blocks(_)
blocks(out) ==
  LET open == {k \in 1..Len(out) : out[k] = "--- File: "}
  IN  IF open = {} THEN <<>>
      ELSE LET k == SetMin(open)
               e == SetMin({j \in (k + 1)..Len(out) : out[j] = " ---"})
           IN  <<SubSeq(out, k + 1, e - 1)>> \o blocks(SubSeq(out, e + 1, Len(out)))

\* How many times x occurs in the sequence s.
count(s, x) == Cardinality({k \in 1..Len(s) : s[k] = x})

\* ------------------------------------------------- Inclusion Graph Builder
\* The depth-first traversal with visitation states and a document cache.
\* With one branch it is sequential; with a branch for each directive of
\* the root, the sibling subtrees are traversed in parallel.

\* The frame a branch pushes for a document: k is the directive followed
\* next and last the last one to follow, known once the document is
\* scanned.  A sibling branch starts on a frame borrowed from the root for
\* the one directive of the root it follows.
frame(path, k, last, borrowed, isScanned) ==
  [path |-> path, k |-> k, last |-> last, borrowed |-> borrowed,
   scanned |-> isScanned]

\* The graphs traversed.
GRAPHS == {TEST_FILES, NESTED_FILES, SIBLING_FILES}

\* The state once the root is claimed and scanned by branch 0, which
\* follows the root's directives itself.
InitBuilder ==
  /\ files \in GRAPHS
  /\ importMap = files
  /\ processedFiles \in {<<d>> : d \in DOMAIN files}
  /\ pc = "idle"
  /\ fi = 1
  /\ output = <<>>
  /\ lines = <<>>
  /\ li = 1
  /\ processedLines = <<>>
  /\ claudeOutput = <<>>
  /\ geminiOutput = <<>>
  /\ scanned = <<>>
  /\ lookedUp = <<>>
  /\ searchIdle
  /\ rewriteIdle
  /\ nodeState = [d \in DOMAIN files |->
                    IF d = root THEN "IN_PROGRESS" ELSE "UNVISITED"]
  /\ stacks = [b \in {0} |->
                <<frame(root, 1, Len(directives(root)), FALSE, TRUE)>>]
  /\ cacheWrites = [d \in DOMAIN files |-> IF d = root THEN 1 ELSE 0]
  /\ cycles = {}

\* The same with the root's directives dealt to sibling branches, one
\* each; branch 0 keeps the root and waits for them.
InitParallel ==
  /\ files \in GRAPHS
  /\ importMap = files
  /\ processedFiles \in {<<d>> : d \in {e \in DOMAIN files :
                                         Len(directives(e)) > 1}}
  /\ pc = "idle"
  /\ fi = 1
  /\ output = <<>>
  /\ lines = <<>>
  /\ li = 1
  /\ processedLines = <<>>
  /\ claudeOutput = <<>>
  /\ geminiOutput = <<>>
  /\ scanned = <<>>
  /\ lookedUp = <<>>
  /\ searchIdle
  /\ rewriteIdle
  /\ nodeState = [d \in DOMAIN files |->
                    IF d = root THEN "IN_PROGRESS" ELSE "UNVISITED"]
  /\ stacks = [b \in 0..Len(directives(root)) |->
                IF b = 0
                  THEN <<frame(root, Len(directives(root)) + 1,
                               Len(directives(root)), FALSE, TRUE)>>
                  ELSE <<frame(root, b, b, TRUE, TRUE)>>]
  /\ cacheWrites = [d \in DOMAIN files |-> IF d = root THEN 1 ELSE 0]
  /\ cycles = {}

\* The frame branch b works on.
top(b) == stacks[b][Len(stacks[b])]

\* Branch b has a directive to follow next.
hasEdge(b) ==
  /\ stacks[b] # <<>>
  /\ top(b).scanned
  /\ top(b).k <= top(b).last

\* The document that directive leads to; <<>> when its path resolves to
\* no document.
edgeTarget(b) == target(top(b).path, directives(top(b).path)[top(b).k])

\* The stack of b with the frame on top moved to its next directive.
advance(b) == [stacks[b] EXCEPT ![Len(stacks[b])].k = @ + 1]

\* The node states after a cycle edge to t is met, with a reset: the
\* target is taken for finished.
afterCycleDone(st, t) == [st EXCEPT ![t] = "DONE"]

\* The node states after a cycle edge to t is met: as they were.
afterCycle(st, t) == st

\* The node states after a claim of t that marks nothing: t is marked only
\* once its branch is done with it.
claimUnmarked(st, t) == st

\* The node states after a claim of t: the test for UNVISITED and this
\* update are one step.
claim(st, t) == [st EXCEPT ![t] = "IN_PROGRESS"]

\* Resolution fails: the error is attached to the edge, the next directive
\* follows.
EdgeFails ==
  \E b \in DOMAIN stacks :
    /\ hasEdge(b)
    /\ edgeTarget(b) = <<>>
    /\ stacks' = [stacks EXCEPT ![b] = advance(b)]
    /\ UNCHANGED <<nodeState, cacheWrites, cycles>>
    /\ UNCHANGED <<harnessVars, searchVars, rewriteVars>>

\* The target is IN_PROGRESS: a cycle diagnostic on this edge, no descent.
EdgeCycle ==
  \E b \in DOMAIN stacks :
    /\ hasEdge(b)
    /\ edgeTarget(b) # <<>>
    /\ nodeState[edgeTarget(b)] = "IN_PROGRESS"
    /\ cycles' = cycles \cup {<<top(b).path, top(b).k>>}
    /\ nodeState' = afterCycle(nodeState, edgeTarget(b))
    /\ stacks' = [stacks EXCEPT ![b] = advance(b)]
    /\ UNCHANGED cacheWrites
    /\ UNCHANGED <<harnessVars, searchVars, rewriteVars>>

\* The target is DONE: its cached document is reused.
EdgeReuse ==
  \E b \in DOMAIN stacks :
    /\ hasEdge(b)
    /\ edgeTarget(b) # <<>>
    /\ nodeState[edgeTarget(b)] = "DONE"
    /\ stacks' = [stacks EXCEPT ![b] = advance(b)]
    /\ UNCHANGED <<nodeState, cacheWrites, cycles>>
    /\ UNCHANGED <<harnessVars, searchVars, rewriteVars>>

\* The target is UNVISITED: the branch claims it and pushes it; the read
\* of the document is under way.
EdgeClaim ==
  \E b \in DOMAIN stacks :
    /\ hasEdge(b)
    /\ edgeTarget(b) # <<>>
    /\ nodeState[edgeTarget(b)] = "UNVISITED"
    /\ nodeState' = claim(nodeState, edgeTarget(b))
    /\ stacks' = [stacks EXCEPT ![b] =
                   Append(advance(b), frame(edgeTarget(b), 1, 0, FALSE, FALSE))]
    /\ UNCHANGED <<cacheWrites, cycles>>
    /\ UNCHANGED <<harnessVars, searchVars, rewriteVars>>

\* The read is over: the document is scanned and written to the cache.
Scan ==
  \E b \in DOMAIN stacks :
    /\ stacks[b] # <<>>
    /\ ~top(b).scanned
    /\ cacheWrites' = [cacheWrites EXCEPT ![top(b).path] = @ + 1]
    /\ stacks' = [stacks EXCEPT ![b][Len(stacks[b])] =
                   frame(top(b).path, 1, Len(directives(top(b).path)),
                         FALSE, TRUE)]
    /\ UNCHANGED <<nodeState, cycles>>
    /\ UNCHANGED <<harnessVars, searchVars, rewriteVars>>

\* The directives of the frame are through: the document is popped to
\* DONE; a borrowed frame is only dropped, and the branch that lent it
\* pops it once the borrowers are through.
Pop ==
  \E b \in DOMAIN stacks :
    /\ stacks[b] # <<>>
    /\ top(b).scanned
    /\ top(b).k > top(b).last
    /\ ~top(b).borrowed =>
         \A c \in DOMAIN stacks \ {b} :
           \A j \in 1..Len(stacks[c]) : stacks[c][j].path # top(b).path
                                         \/ ~stacks[c][j].borrowed
    /\ nodeState' = IF top(b).borrowed THEN nodeState
                    ELSE [nodeState EXCEPT ![top(b).path] = "DONE"]
    /\ stacks' = [stacks EXCEPT ![b] = SubSeq(stacks[b], 1, Len(stacks[b]) - 1)]
    /\ UNCHANGED <<cacheWrites, cycles>>
    /\ UNCHANGED <<harnessVars, searchVars, rewriteVars>>

NextBuilder ==
  \/ EdgeFails
  \/ EdgeCycle
  \/ EdgeReuse
  \/ EdgeClaim
  \/ Scan
  \/ Pop

SpecBuilder == InitBuilder /\ [][NextBuilder]_vars

SpecParallel == InitParallel /\ [][NextBuilder]_vars

\* ------------------------------------------------------------------ claims

\* C1: flat mode dedup.  After a flat render, every document that two or more
\* directive occurrences reachable from the root lead to has exactly one
\* '--- File: ... ---' block in the output.
C1_FlatDedup ==
  (pc = "done" /\ plain(files)) =>
    \A t \in DOMAIN files :
      Cardinality(occurrences(t)) > 1 => count(blocks(claudeOutput), t) = 1

\* C2: flat mode ordering.  The blocks of the flat output are the documents
\* the root reaches, in depth-first preorder from the root, directives
\* followed in document order.
C2_FlatOrder ==
  (pc = "done" /\ plain(files)) => blocks(claudeOutput) = preorder(root)

\* The cyclic edges a depth-first traversal from the root meets: the
\* directive occurrences <<d, k>> whose target is on the traversal stack
\* (d itself included) when d's k-th directive is followed.
RECURSIVE cyclesFrom(_, _, _)
RECURSIVE cyclesAlong(_, _, _, _)
cyclesFrom(d, stack, st) ==
  cyclesAlong(d, 1, Append(stack, d), [seen |-> st.seen \cup {d}, edges |-> st.edges])
cyclesAlong(d, k, stack, st) ==
  IF k > Len(directives(d)) THEN st
  ELSE LET t == target(d, directives(d)[k])
       IN  IF t = <<>> THEN cyclesAlong(d, k + 1, stack, st)
           ELSE IF \E j \in 1..Len(stack) : stack[j] = t
             THEN cyclesAlong(d, k + 1, stack,
                              [st EXCEPT !.edges = @ \cup {<<d, k>>}])
           ELSE IF t \in st.seen THEN cyclesAlong(d, k + 1, stack, st)
           ELSE cyclesAlong(d, k + 1, stack, cyclesFrom(t, stack, st))

cyclicEdges == cyclesFrom(root, <<>>, [seen |-> {}, edges |-> {}]).edges

\* How many times the text pat occurs in the text out.
occurs(out, pat) ==
  Cardinality({k \in 1..(Len(out) - Len(pat) + 1) :
                 SubSeq(out, k, k + Len(pat) - 1) = pat})

\* C3: cycle termination.  A render of a cyclic graph ends, in either mode,
\* with exactly one cycle diagnostic for each cyclic edge: the error marker
\* that carries the edge's raw path is in the output once.
C3_CycleDiagnosed ==
  (pc = "done" /\ plain(files)) =>
    \A e \in cyclicEdges :
      /\ occurs(claudeOutput, ImportFailed(directives(e[1])[e[2]])) = 1
      /\ occurs(geminiOutput, ImportFailed(directives(e[1])[e[2]])) = 1

\* The hierarchical render the specification describes, of the lines ls of
\* the document at path: a directive whose target is in the import map
\* gives way to the target's own render between its two markers; depth
\* bounds the nesting.
RECURSIVE substituted(_, _, _)
substituted(path, ls, depth) ==
  IF ls = <<>> THEN <<>>
  ELSE LET l    == Head(ls)
           full == fullImportPath(path, l)
       IN  (IF ~atMatch(l) THEN <<l>>
            ELSE IF ~found(importMap, full) THEN <<ImportFailed(capture(l))>>
            ELSE <<ImportedFrom(capture(l)),
                   trim(IF depth = 0 THEN importMap[full]
                        ELSE join(substituted(full, split(importMap[full], "\n"),
                                              depth - 1), <<"\n">>)),
                   EndOfImport(capture(l))>>)
             \o substituted(path, Tail(ls), depth)

\* C4: recursive in-place substitution.  The hierarchical render of a root
\* whose graph has no cycle is the root's text with every directive replaced
\* by the fully rendered content of its target, nested directives included.
C4_RecursiveSubstitution ==
  (pc = "done" /\ plain(files) /\ Len(processedFiles) = 1 /\ cyclicEdges = {}) =>
    geminiOutput =
      join(substituted(root, split(files[root], "\n"), Cardinality(DOMAIN files)),
           <<"\n">>)

\* The raw paths of the '<!-- Imported from: ... -->' markers of a
\* hierarchical output, in order.
RECURSIVE imports(_)
imports(out) ==
  LET open == {k \in 1..Len(out) : out[k] = "<!-- Imported from: "}
  IN  IF open = {} THEN <<>>
      ELSE LET k == SetMin(open)
               e == SetMin({j \in (k + 1)..Len(out) : out[j] = " -->"})
           IN  <<SubSeq(out, k + 1, e - 1)>> \o imports(SubSeq(out, e + 1, Len(out)))

\* C5: hierarchical mode does not deduplicate.  A document that N directive
\* occurrences reachable from the root lead to is substituted N times, each
\* time between its own pair of markers.
C5_NonDedup ==
  (pc = "done" /\ plain(files) /\ Len(processedFiles) = 1 /\ cyclicEdges = {}
     /\ importMap = byResolvedPath(files)) =>
    \A t \in {u \in DOMAIN files : files[u] # <<>>} :
      LET raws == {directives(e[1])[e[2]] : e \in occurrences(t)}
      IN  /\ Cardinality({k \in 1..Len(imports(geminiOutput)) :
                            imports(geminiOutput)[k] \in raws})
               = Cardinality(occurrences(t))
          /\ \A r \in raws :
               occurs(geminiOutput, ImportedFrom(r))
                 = occurs(geminiOutput, EndOfImport(r))

\* The root boundary of a run: the working directory the relative paths of
\* the documents are taken from.
inside(full) ==
  LET base == absolute([k \in 1..Len(CWD) |-> <<CWD[k]>>])
  IN  /\ Len(full) >= Len(base)
      /\ SubSeq(full, 1, Len(base)) = base
      /\ (Len(full) = Len(base) \/ full[Len(base) + 1] = "/")

\* The directives of the listed documents that resolve outside the root
\* boundary, as <<document, raw path>>.
escaping ==
  UNION {{<<d, directives(d)[j]>> :
            j \in {i \in 1..Len(directives(d)) :
                     ~inside(resolve(dirname(d), directives(d)[i]))}} :
          d \in {processedFiles[k] : k \in 1..Len(processedFiles)}}

\* C7: path sandboxing.  No path outside the root boundary is ever looked
\* up, and a directive that resolves outside it ends as an error marker in
\* the output, never as an import.
C7_Sandboxed ==
  /\ \A k \in 1..Len(lookedUp) : inside(lookedUp[k])
  /\ pc = "done" =>
       \A e \in escaping :
         /\ occurs(geminiOutput, ImportFailed(e[2])) >= 1
         /\ occurs(geminiOutput, ImportedFrom(e[2])) = 0

\* A fence delimiter line: it opens with three backticks.
fenceLine(l) ==
  Len(l) >= 3 /\ l[1] = backtick /\ l[2] = backtick /\ l[3] = backtick

\* Line j of ls lies inside a fenced code block: an odd number of fence
\* delimiter lines precede it, and it is no delimiter itself.
inFence(ls, j) ==
  /\ ~fenceLine(ls[j])
  /\ Cardinality({i \in 1..(j - 1) : fenceLine(ls[i])}) % 2 = 1

\* Position k of line l lies inside an inline code span: an odd number of
\* backticks precede it and one follows it.
inSpan(l, k) ==
  /\ ~fenceLine(l)
  /\ Cardinality({i \in 1..(k - 1) : l[i] = backtick}) % 2 = 1
  /\ \E i \in (k + 1)..Len(l) : l[i] = backtick

\* C8: code-region exclusion.  A line whose '@' lies inside a fenced block
\* or an inline code span is not taken for a directive: the scan leaves it
\* in the output as it is.
C8_CodeRegionExcluded ==
  (pc = "lines" /\ li > 1 /\ atMatch(lines[li - 1])
     /\ (\/ inFence(lines, li - 1)
         \/ inSpan(lines[li - 1], SetMin(matchStarts(lines[li - 1]))))) =>
    processedLines[Len(processedLines)] = lines[li - 1]

\* How many entries of processedFiles the hierarchical render has taken up.
started ==
  IF pc = "claude" THEN 0
  ELSE IF pc = "lines" THEN fi
  ELSE IF pc = "gemini" THEN fi - 1
  ELSE Len(processedFiles)

\* The resolved paths of the directive lines among ls, taken from path.
RECURSIVE fullPaths(_, _)
fullPaths(path, ls) ==
  IF ls = <<>> THEN <<>>
  ELSE (IF atMatch(Head(ls)) THEN <<fullImportPath(path, Head(ls))>> ELSE <<>>)
         \o fullPaths(path, Tail(ls))

\* The resolved paths of all directive lines of the first n listed files.
RECURSIVE fullPathsOfFirst(_)
fullPathsOfFirst(n) ==
  IF n = 0 THEN <<>>
  ELSE fullPathsOfFirst(n - 1)
         \o fullPaths(processedFiles[n], split(files[processedFiles[n]], "\n"))

stripped(src, inner) ==
  \E i \in 0..Len(src) :
    /\ i + Len(inner) <= Len(src)
    /\ inner = SubSeq(src, i + 1, i + Len(inner))
    /\ \A k \in 1..i : src[k] \in WS
    /\ \A k \in (i + Len(inner) + 1)..Len(src) : src[k] \in WS
    /\ inner # <<>> => inner[1] \notin WS /\ inner[Len(inner)] \notin WS

\* The text of a flat output between the opening marker of path, the blank
\* line after it, and the blank line before the closing marker.
innerOf(out, path) ==
  SubSeq(out, Len(FileMarker(path)) + 3, Len(out) - Len(EndFileMarker(path)) - 2)

\* out is one block of path: the two markers around some inner text.
oneBlock(out, path) ==
  /\ blocks(out) = <<path>>
  /\ Len(out) >= Len(FileMarker(path)) + Len(EndFileMarker(path)) + 4
  /\ out = FileMarker(path) \o <<"\n", "\n">> \o innerOf(out, path)
             \o <<"\n", "\n">> \o EndFileMarker(path)

RECURSIVE outcomes(_)
outcomes(out) ==
  LET open == {k \in 1..Len(out) :
                 out[k] \in {"<!-- Imported from: ", "<!-- Import failed: "}}
  IN  IF open = {} THEN <<>>
      ELSE LET k == SetMin(open)
               e == SetMin({j \in (k + 1)..Len(out) : out[j] = " -->"})
           IN  << <<IF out[k] = "<!-- Imported from: " THEN "imported"
                    ELSE "failed",
                    SubSeq(out, k + 1, e - 1)>> >>
                 \o outcomes(SubSeq(out, e + 1, Len(out)))

\* Line l of the document at path is a directive that fails: it resolves
\* outside the root boundary, or its target cannot be loaded from the
\* import map.
fails(path, l) ==
  atMatch(l) /\ (\/ ~inside(fullImportPath(path, l))
                 \/ ~found(importMap, fullImportPath(path, l)))

\* What the directive lines among ls should leave in the output, in order:
\* an error marker for one that fails, an import for any other.
RECURSIVE due(_, _)
due(path, ls) ==
  IF ls = <<>> THEN <<>>
  ELSE (IF fails(path, Head(ls)) THEN << <<"failed", capture(Head(ls))>> >>
        ELSE IF atMatch(Head(ls)) THEN << <<"imported", capture(Head(ls))>> >>
        ELSE <<>>)
         \o due(path, Tail(ls))

RECURSIVE dueOfFirst(_)
dueOfFirst(n) ==
  IF n = 0 THEN <<>>
  ELSE dueOfFirst(n - 1)
         \o due(processedFiles[n], split(files[processedFiles[n]], "\n"))

\* Where the output of line j of the file being processed starts in
\* processedLines: every import before it took three entries, every other
\* line one.
position(j) ==
  j + 2 * Cardinality({i \in 1..(j - 1) :
                         /\ atMatch(lines[i])
                         /\ found(importMap,
                                  fullImportPath(processedFiles[fi], lines[i]))})

\* C10: local error recovery.  A directive that fails to resolve or to load
\* becomes one error marker where it stood; the lines after it are still
\* processed, and the finished run returns a text that holds, in order, an
\* error marker for every failed directive and an import for every other
\* directive of every listed file.
C10_RecoveredLocally ==
  /\ pc = "lines" =>
       /\ Len(processedLines) = position(li) - 1
       /\ \A j \in 1..(li - 1) :
            fails(processedFiles[fi], lines[j]) =>
              processedLines[position(j)] = ImportFailed(capture(lines[j]))
  /\ pc = "done" => outcomes(geminiOutput) = dueOfFirst(Len(processedFiles))

\* Position k of line l starts a word: it is the first of the line or
\* follows whitespace.
wordStart(l, k) == k = 1 \/ l[k - 1] \in WS

\* What the loop body pushed for line j of the file being processed.
pushedFor(j) ==
  SubSeq(processedLines, position(j),
         IF j + 1 = li THEN Len(processedLines) ELSE position(j + 1) - 1)

\* The entries analyzeClaudeFile reports for line j of the file being
\* processed.
reportedFor(j) ==
  LET found_ == analyzeClaudeFile(files[processedFiles[fi]], "repo",
                                  processedFiles[fi]).atImports
  IN  {k \in 1..Len(found_) : found_[k].line = j}

\* C11: directive recognition position.  A line none of whose '@' starts
\* the line or follows whitespace holds no directive: the hierarchical
\* render leaves the line as it is and the analysis reports no import on it.
C11_DirectivePosition ==
  (pc = "lines" /\ li > 1
     /\ ~\E k \in 1..Len(lines[li - 1]) :
           lines[li - 1][k] = "@" /\ wordStart(lines[li - 1], k)) =>
    /\ pushedFor(li - 1) = <<lines[li - 1]>>
    /\ reportedFor(li - 1) = {}

\* C15: import of a present target.  A directive line whose target, taken
\* from the directory of the file that holds the line, is a key of the
\* import map gives way to the two import markers around the target's
\* content (whitespace at its two ends aside); the failure marker stands
\* only for a target that is no key of the import map.
C15_ImportedWhenPresent ==
  (pc = "lines" /\ li > 1 /\ atMatch(lines[li - 1])) =>
    LET raw  == capture(lines[li - 1])
        full == resolve(dirname(processedFiles[fi]), raw)
        out  == pushedFor(li - 1)
    IN  /\ full \in DOMAIN importMap =>
             /\ Len(out) = 3
             /\ out[1] = ImportedFrom(raw)
             /\ stripped(importMap[full], out[2])
             /\ out[3] = EndOfImport(raw)
        /\ out = <<ImportFailed(raw)>> => full \notin DOMAIN importMap

\* The places of line l where a directive starts: an '@' that starts a word
\* and has a path after it.  A path runs to the next whitespace, so no two
\* of them overlap.
directiveStarts(l) ==
  {k \in 1..(Len(l) - 1) : l[k] = "@" /\ wordStart(l, k) /\ l[k + 1] \notin WS}

\* C17: several directives on a line.  A line outside any code region whose
\* '@' all start words yields as many imports as it holds directives, in
\* the hierarchical render (import or failure markers) and in the analysis.
C17_EveryDirective ==
  (pc = "lines" /\ li > 1
     /\ matchStarts(lines[li - 1]) = directiveStarts(lines[li - 1])
     /\ ~inFence(lines, li - 1)
     /\ \A k \in 1..Len(lines[li - 1]) : lines[li - 1][k] # backtick) =>
    /\ Len(outcomes(join(pushedFor(li - 1), <<"\n">>)))
         = Cardinality(directiveStarts(lines[li - 1]))
    /\ Cardinality(reportedFor(li - 1))
         = Cardinality(directiveStarts(lines[li - 1]))

\* The keys of the files analysed, in the order of allResults.
analysed == [k \in 1..Len(allResults) |->
               <<allResults[k].repo, ":", allResults[k].filePath>>]

\* C18: one fetch and one analysis per file, and no failure ends the run.
\* No key is fetched twice and no file has two analyses in allResults,
\* whichever queries return it; every item before the one at hand has been
\* dealt with whatever failed; the run goes on until the report is
\* generated, from the results gathered.
C18_OncePerKey ==
  /\ \A k \in 1..Len(fetched) : count(fetched, fetched[k]) = 1
  /\ \A k \in 1..Len(analysed) :
       count(analysed, analysed[k]) = 1 /\ count(fetched, analysed[k]) = 1
  /\ spc = "items" =>
       \A k \in 1..(ii - 1) : count(fetched, fileKey(items[k])) = 1
  /\ spc # "done" => ENABLED NextSearch
  /\ spc = "done" =>
       /\ qi = Len(SEARCH_QUERIES) + 1
       /\ report.files = allResults
       /\ report.summary.totalFiles = Len(allResults)

\* A finished run in which a search failed, a read failed and a file was
\* returned again, with a file analysed.
C18_Witness ==
  /\ spc = "done"
  /\ events = {"search failed", "read failed", "seen again"}
  /\ Len(allResults) > 0

\* C19: the average of the report.  averageImportsPerFile is a finite
\* number: totalImports / filesWithImports when a file has imports, 0
\* when none has, and no division by zero is made.
C19_AverageDefined ==
  spc = "done" =>
    /\ report.summary.averageImportsPerFile.den # 0
    /\ report.summary.averageImportsPerFile =
         IF filesWithImports(allResults) > 0
           THEN divide(totalImports(allResults), filesWithImports(allResults))
           ELSE number(0)

\* Position m of r, the rest of a line after its type, ends the prefix of a
\* conventional first line: ": ", or a scope in parentheses and ": ".
isPrefixEnd(r, m) ==
  /\ r[m - 1] = ":"
  /\ r[m] = " "
  /\ (m = 2 \/ (r[1] = "(" /\ m >= 5 /\ r[m - 2] = ")"))

\* Where the prefix of a first line can end: after 'type: ' or
\* 'type(scope): '.
prefixEnds(line) ==
  UNION {{Len(t) + m :
            m \in {n \in 2..(Len(line) - Len(t)) :
                     isPrefixEnd(SubSeq(line, Len(t) + 1, Len(line)), n)}} :
          t \in {u \in TYPES : startsWith(line, u)}}

\* A first line conforms: it starts with a type, an optional scope and
\* ": ", what follows is lowercase, and it has 60 characters at most.
conforming(line) ==
  /\ prefixEnds(line) # {}
  /\ LET body == SubSeq(line, SetMin(prefixEnds(line)) + 1, Len(line))
     IN  toLower(body) = body
  /\ Len(line) <= 60

\* C12: commit message conformance.  Every first line rewrite_commit has
\* made conforms, and a first line that conformed already is rewritten to
\* itself.
C12_Conforming ==
  \A k \in 1..Len(rewritten) :
    /\ conforming(rewritten[k].new_first_line)
    /\ conforming(rewritten[k].first_line) =>
         rewritten[k].new_first_line = rewritten[k].first_line

\* C16: history rewrite.  When the script has run to completion, the
\* history of the branch has a commit for each commit it had, in the same
\* order, each with the rewritten first line of the commit it replaces, a
\* merge commit with its message as it was.
C16_HistoryRewritten ==
  rpc = "done" =>
    LET after == logReverse(objects, branch)
    IN  /\ Len(after) = Len(commits)
        /\ \A k \in 1..Len(commits) :
             IF isMerge(objects[commits[k]])
               THEN objects[after[k]].msg = objects[commits[k]].msg
               ELSE Head(objects[after[k]].msg)
                      = new_first_line(Head(objects[commits[k]].msg))

\* The canonical paths branch b has pushed on its traversal stack.
owned(b) ==
  {stacks[b][j].path : j \in {i \in 1..Len(stacks[b]) : ~stacks[b][i].borrowed}}

\* The nodes in state IN_PROGRESS.
inProgress == {d \in DOMAIN nodeState : nodeState[d] = "IN_PROGRESS"}

\* C13: traversal stack invariant.  In the sequential traversal the nodes
\* IN_PROGRESS are at every moment the paths on the traversal stack; a step
\* that records a cycle diagnostic changes no node state; a node that
\* leaves the stack is DONE, and when the traversal is over every document
\* the root reaches is DONE.
C13_StackInvariant ==
  /\ [](/\ inProgress = owned(0)
        /\ stacks[0] = <<>> =>
             \A d \in reachable(root) : nodeState[d] = "DONE")
  /\ [][/\ cycles' # cycles => nodeState' = nodeState
        /\ \A d \in owned(0) : d \notin owned(0)' => nodeState'[d] = "DONE"]_vars

\* A traversal that is over, with a cycle diagnostic on an edge whose
\* target is DONE.
C13_Witness ==
  /\ DOMAIN stacks = {0}
  /\ stacks[0] = <<>>
  /\ \E e \in cycles :
       nodeState[target(e[1], directives(e[1])[e[2]])] = "DONE"

====
